---------------------------- MODULE Spec2Model ----------------------------
(***************************************************************************)
(* Model of the financial-document analysis pipeline:                      *)
(*   document_utils.py  DocumentProcessor (validate_file, metadata          *)
(*                      extraction, authenticity signals)                   *)
(*   agent.py           FinancialDocumentAnalyst (evidence tools,           *)
(*                      analyze_document and its bounded tool-use loop)     *)
(*                                                                         *)
(* Python strings that the code inspects character by character (file      *)
(* names, creator/producer strings) are sequences of one-character          *)
(* strings.  A Python call is modelled by an operator whose value is a      *)
(* record with a field "raised": TRUE when the call ends in an exception.   *)
(***************************************************************************)
EXTENDS Integers, Sequences, FiniteSets, TLC

VARIABLES
    unit,          \* the last direct call of a DocumentProcessor or tool function
    pc,            \* position of the analyze_document request
    doc,           \* the request's document: bytes and filename
    validation,    \* what validate_file gave analyze_document
    iterations,    \* AgentExecutor's iteration counter
    agent_calls,   \* invocations of the reasoning agent in this request
    conversation,  \* agent_scratchpad: the tool results fed back so far
    vision_failed, \* a vision-model request of this request has failed
    agent_fault,   \* an invocation of the reasoning agent has failed
    result,        \* what analyze_document gave its caller
    audit_log,     \* the entries of the audit log file
    log_calls      \* the concurrent calls of log_event: where each one is

request == <<pc, doc, validation, iterations, agent_calls, conversation,
             vision_failed, agent_fault, result>>

vars == <<unit, audit_log, log_calls, request>>

(***************************************************************************)
(* Strings                                                                 *)
(***************************************************************************)
LowerLetters ==
    <<"a","b","c","d","e","f","g","h","i","j","k","l","m",
      "n","o","p","q","r","s","t","u","v","w","x","y","z">>

UpperLetters ==
    <<"A","B","C","D","E","F","G","H","I","J","K","L","M",
      "N","O","P","Q","R","S","T","U","V","W","X","Y","Z">>

\* str.lower() on one character
LowerChar(c) ==
    IF \E i \in 1..Len(UpperLetters) : UpperLetters[i] = c
    THEN LowerLetters[CHOOSE i \in 1..Len(UpperLetters) : UpperLetters[i] = c]
    ELSE c

\* str.lower()
Lower(s) == [i \in 1..Len(s) |-> LowerChar(s[i])]

\* str.rfind(c), 1-based; 0 when c does not occur (Python's -1)
RFind(s, c) ==
    IF \E i \in 1..Len(s) : s[i] = c
    THEN CHOOSE i \in 1..Len(s) :
            /\ s[i] = c
            /\ \A j \in (i+1)..Len(s) : s[j] # c
    ELSE 0

\* `t in s` for Python strings: t occurs in s as a contiguous substring
Contains(s, t) ==
    \E i \in 0..(Len(s) - Len(t)) :
        \A k \in 1..Len(t) : s[i + k] = t[k]

\* os.path.splitext(p)[1]: the text from the last dot on, unless that dot
\* comes before the last "/" or only dots precede it in the last component
SplitextExt(p) ==
    LET sepIndex == RFind(p, "/")
        dotIndex == RFind(p, ".")
    IN  IF /\ dotIndex > sepIndex
           /\ \E k \in (sepIndex + 1)..(dotIndex - 1) : p[k] # "."
        THEN SubSeq(p, dotIndex, Len(p))
        ELSE <<>>

\* s.split('.')[-1]: the text after the last dot, the whole of s without one
SplitLast(s) == SubSeq(s, RFind(s, ".") + 1, Len(s))

(***************************************************************************)
(* DocumentProcessor.validate_file                                         *)
(***************************************************************************)
MAX_FILE_SIZE == 10 * 1024 * 1024

ALLOWED_EXTENSIONS ==
    { <<".","p","d","f">>, <<".","p","n","g">>,
      <<".","j","p","g">>, <<".","j","p","e","g">> }

allowed_mimes == {"application/pdf", "image/png", "image/jpeg"}

TooLargeMsg  == "File size exceeds maximum allowed size of 10.0MB"
NotAllowedMsg == "File type not allowed. Supported types"
MismatchMsg  == "File MIME type does not match extension"

Returned(v) == [raised |-> FALSE, value |-> v]
Raised(e)   == [raised |-> TRUE, exc |-> e]

\* self.magic.from_buffer(file_data): the sniffer's answer is an attribute of
\* the bytes; it either names a MIME type or raises
from_buffer(file_data) == file_data.magic

validate_file_ge(file_data, filename) ==
    IF file_data.size >= MAX_FILE_SIZE
    THEN Returned([is_valid |-> FALSE, error |-> TooLargeMsg])
    ELSE IF Lower(SplitextExt(filename)) \notin ALLOWED_EXTENSIONS
    THEN Returned([is_valid |-> FALSE, error |-> NotAllowedMsg])
    ELSE IF from_buffer(file_data).raised
    THEN Raised(from_buffer(file_data).exc)
    ELSE IF from_buffer(file_data).value \notin allowed_mimes
    THEN Returned([is_valid |-> FALSE, error |-> MismatchMsg])
    ELSE Returned([is_valid |-> TRUE, error |-> ""])

validate_file(file_data, filename) ==
    IF file_data.size > MAX_FILE_SIZE
    THEN Returned([is_valid |-> FALSE, error |-> TooLargeMsg])
    ELSE IF Lower(SplitextExt(filename)) \notin ALLOWED_EXTENSIONS
    THEN Returned([is_valid |-> FALSE, error |-> NotAllowedMsg])
    ELSE IF from_buffer(file_data).raised
    THEN Raised(from_buffer(file_data).exc)
    ELSE IF from_buffer(file_data).value \notin allowed_mimes
    THEN Returned([is_valid |-> FALSE, error |-> MismatchMsg])
    ELSE Returned([is_valid |-> TRUE, error |-> ""])


(***************************************************************************)
(* Python values                                                           *)
(***************************************************************************)
\* An optional value: Python's None, or a value
None    == [none |-> TRUE, v |-> <<>>]
Some(x) == [none |-> FALSE, v |-> x]

\* dict.get(key, default) on a dict modelled as a record
Get(d, key, default) == IF key \in DOMAIN d THEN d[key] ELSE default

\* the empty dict
EmptyDict == [k \in {} |-> None]

Whitespace == {" ", "\t", "\n"}

\* len(s.strip()) > 0
NonBlank(s) == \E i \in 1..Len(s) : s[i] \notin Whitespace

(***************************************************************************)
(* DocumentProcessor.extract_pdf_metadata / extract_image_metadata         *)
(*                                                                         *)
(* file_data.pdf is what PyPDF2.PdfReader makes of the bytes, and           *)
(* file_data.image what PIL.Image.open makes of them:                       *)
(*   pdf   = [ok, fault, num_pages, encrypted, info, text]                  *)
(*   info  = None (no document information), or                             *)
(*           Some([creator, producer, creation, modification]),             *)
(*           each field None when its key is absent                         *)
(*   text  = Raised(..) or Returned(page-1 text)                            *)
(*   image = [ok, fault, format, exif, dpi]                                 *)
(***************************************************************************)
Unknown == <<"U","n","k","n","o","w","n">>

\* DocumentProcessor._parse_pdf_date: a date string is abstracted to
\* [prefix, wellformed]; the "D:" prefix is dropped, and strptime on the
\* first 14 characters either gives a datetime or raises, which gives None
parse_pdf_date(date_str) ==
    IF date_str.wellformed THEN Some(<<"isoformat">>) ELSE None

\* info.get(key, default)
InfoGet(field, default) == IF field.none THEN default ELSE field.v

extract_pdf_metadata(file_data) ==
    LET p == file_data.pdf
    IN  IF ~p.ok
        THEN [error |-> p.fault]
        ELSE LET base ==
                   [num_pages         |-> p.num_pages,
                    encrypted         |-> p.encrypted,
                    metadata          |-> EmptyDict,
                    text_extractable  |-> FALSE,
                    creation_date     |-> None,
                    modification_date |-> None,
                    creator           |-> None,
                    producer          |-> None]
                 withInfo ==
                   IF p.info.none
                   THEN base
                   ELSE LET info == p.info.v
                        IN  [base EXCEPT
                               !.metadata = [creator  |-> InfoGet(info.creator, <<>>),
                                             producer |-> InfoGet(info.producer, <<>>)],
                               !.creator  = Some(InfoGet(info.creator, Unknown)),
                               !.producer = Some(InfoGet(info.producer, Unknown)),
                               !.creation_date =
                                   IF info.creation.none THEN None
                                   ELSE parse_pdf_date(info.creation.v),
                               !.modification_date =
                                   IF info.modification.none THEN None
                                   ELSE parse_pdf_date(info.modification.v)]
             IN  [withInfo EXCEPT
                    !.text_extractable =
                        IF p.text.raised THEN FALSE ELSE NonBlank(p.text.value)]

extract_image_metadata(file_data) ==
    LET im == file_data.image
    IN  IF ~im.ok
        THEN [error |-> im.fault]
        ELSE [format |-> im.format,
              exif   |-> im.exif,
              dpi    |-> im.dpi]

(***************************************************************************)
(* DocumentProcessor.analyze_document_authenticity_signals                 *)
(***************************************************************************)
legitimate_tools ==
    << <<"q","u","i","c","k","b","o","o","k","s">>,
       <<"b","a","n","k">>,
       <<"f","i","n","a","n","c","i","a","l">>,
       <<"a","c","r","o","b","a","t">>,
       <<"m","i","c","r","o","s","o","f","t">> >>

suspicious_tools ==
    << <<"p","h","o","t","o","s","h","o","p">>,
       <<"g","i","m","p">>,
       <<"p","a","i","n","t">>,
       <<"p","r","e","v","i","e","w">>,
       <<"p","i","x","l","r">> >>

\* a finding: its fixed text, and the value an f-string puts into it
Flag(text)          == [text |-> text, arg |-> <<>>, n |-> 0]
FlagWith(text, arg) == [text |-> text, arg |-> arg, n |-> 0]
FlagNum(text, n)    == [text |-> text, arg |-> <<>>, n |-> n]

EncryptedFlag      == Flag("Document is encrypted - unusual for bank statements")
NotExtractableFlag == Flag("Text not extractable - possible scanned/screenshot document")
ExtractableSignal  == Flag("Text is extractable - appears to be original digital document")
LegitimateSignal(tool) == FlagWith("Created with legitimate software: ", tool)
EditingFlag(tool)  == FlagWith("Created/modified with image editing software: ", tool)
TimestampsSignal   == Flag("Document has creation and modification timestamps")
ImageFlag          == Flag("Document submitted as image rather than original PDF")
ScreenshotFlag     == Flag("PNG with no EXIF data - likely a screenshot")
LowDpiFlag(dpi)    == FlagNum("Low resolution DPI - may indicate re-photographed document", dpi)

\* any(tool in creator or tool in producer for tool in tools)
AnyToolIn(tools, creator, producer) ==
    \E i \in 1..Len(tools) :
        Contains(creator, tools[i]) \/ Contains(producer, tools[i])

\* creator or producer
Or(a, b) == IF a # <<>> THEN a ELSE b

Signals(red, pos, md) ==
    [red_flags |-> red, positive_signals |-> pos, metadata_analysis |-> md]

\* PdfSignals, had it compared the names without lower()
PdfSignals_nolower(metadata) ==
    LET red1 == IF Get(metadata, "encrypted", FALSE)
                THEN <<EncryptedFlag>> ELSE <<>>
        extractable == Get(metadata, "text_extractable", FALSE)
        red2 == IF ~extractable THEN Append(red1, NotExtractableFlag) ELSE red1
        pos2 == IF extractable THEN <<ExtractableSignal>> ELSE <<>>
        c == Get(metadata, "creator", Some(<<>>))
        p == Get(metadata, "producer", Some(<<>>))
    IN  IF c.none \/ p.none
        THEN Raised("AttributeError: 'NoneType' object has no attribute 'lower'")
        ELSE LET creator  == c.v
                 producer == p.v
                 pos3 == IF AnyToolIn(legitimate_tools, creator, producer)
                         THEN Append(pos2, LegitimateSignal(Or(creator, producer)))
                         ELSE pos2
                 red3 == IF AnyToolIn(suspicious_tools, creator, producer)
                         THEN Append(red2, EditingFlag(Or(creator, producer)))
                         ELSE red2
                 pos4 == IF /\ ~Get(metadata, "creation_date", None).none
                            /\ ~Get(metadata, "modification_date", None).none
                         THEN Append(pos3, TimestampsSignal)
                         ELSE pos3
             IN  Returned(Signals(red3, pos4, metadata))

\* PdfSignals, had it looked for editing software in the creator only
PdfSignals_creatoronly(metadata) ==
    LET red1 == IF Get(metadata, "encrypted", FALSE)
                THEN <<EncryptedFlag>> ELSE <<>>
        extractable == Get(metadata, "text_extractable", FALSE)
        red2 == IF ~extractable THEN Append(red1, NotExtractableFlag) ELSE red1
        pos2 == IF extractable THEN <<ExtractableSignal>> ELSE <<>>
        c == Get(metadata, "creator", Some(<<>>))
        p == Get(metadata, "producer", Some(<<>>))
    IN  IF c.none \/ p.none
        THEN Raised("AttributeError: 'NoneType' object has no attribute 'lower'")
        ELSE LET creator  == Lower(c.v)
                 producer == Lower(p.v)
                 pos3 == IF AnyToolIn(legitimate_tools, creator, producer)
                         THEN Append(pos2, LegitimateSignal(Or(creator, producer)))
                         ELSE pos2
                 red3 == IF AnyToolIn(suspicious_tools, creator, <<>>)
                         THEN Append(red2, EditingFlag(Or(creator, producer)))
                         ELSE red2
                 pos4 == IF /\ ~Get(metadata, "creation_date", None).none
                            /\ ~Get(metadata, "modification_date", None).none
                         THEN Append(pos3, TimestampsSignal)
                         ELSE pos3
             IN  Returned(Signals(red3, pos4, metadata))

\* PdfSignals, had it reported editing software with the text of the
\* legitimate-software signal
PdfSignals_sametext(metadata) ==
    LET red1 == IF Get(metadata, "encrypted", FALSE)
                THEN <<EncryptedFlag>> ELSE <<>>
        extractable == Get(metadata, "text_extractable", FALSE)
        red2 == IF ~extractable THEN Append(red1, NotExtractableFlag) ELSE red1
        pos2 == IF extractable THEN <<ExtractableSignal>> ELSE <<>>
        c == Get(metadata, "creator", Some(<<>>))
        p == Get(metadata, "producer", Some(<<>>))
    IN  IF c.none \/ p.none
        THEN Raised("AttributeError: 'NoneType' object has no attribute 'lower'")
        ELSE LET creator  == Lower(c.v)
                 producer == Lower(p.v)
                 pos3 == IF AnyToolIn(legitimate_tools, creator, producer)
                         THEN Append(pos2, LegitimateSignal(Or(creator, producer)))
                         ELSE pos2
                 red3 == IF AnyToolIn(suspicious_tools, creator, producer)
                         THEN Append(red2, LegitimateSignal(Or(creator, producer)))
                         ELSE red2
                 pos4 == IF /\ ~Get(metadata, "creation_date", None).none
                            /\ ~Get(metadata, "modification_date", None).none
                         THEN Append(pos3, TimestampsSignal)
                         ELSE pos3
             IN  Returned(Signals(red3, pos4, metadata))

\* the PDF branch, lines 159-186
PdfSignals(metadata) ==
    LET red1 == IF Get(metadata, "encrypted", FALSE)
                THEN <<EncryptedFlag>> ELSE <<>>
        extractable == Get(metadata, "text_extractable", FALSE)
        red2 == IF ~extractable THEN Append(red1, NotExtractableFlag) ELSE red1
        pos2 == IF extractable THEN <<ExtractableSignal>> ELSE <<>>
        c == Get(metadata, "creator", Some(<<>>))
        p == Get(metadata, "producer", Some(<<>>))
    IN  IF c.none \/ p.none
        THEN Raised("AttributeError: 'NoneType' object has no attribute 'lower'")
        ELSE LET creator  == Lower(c.v)
                 producer == Lower(p.v)
                 pos3 == IF AnyToolIn(legitimate_tools, creator, producer)
                         THEN Append(pos2, LegitimateSignal(Or(creator, producer)))
                         ELSE pos2
                 red3 == IF AnyToolIn(suspicious_tools, creator, producer)
                         THEN Append(red2, EditingFlag(Or(creator, producer)))
                         ELSE red2
                 pos4 == IF /\ ~Get(metadata, "creation_date", None).none
                            /\ ~Get(metadata, "modification_date", None).none
                         THEN Append(pos3, TimestampsSignal)
                         ELSE pos3
             IN  Returned(Signals(red3, pos4, metadata))

\* ImageSignals, had it compared the format with "png"
ImageSignals_lowercase(metadata) ==
    LET red1 == <<ImageFlag>>
        red2 == IF /\ "format" \in DOMAIN metadata
                   /\ metadata.format = "png"
                   /\ Get(metadata, "exif", {}) = {}
                THEN Append(red1, ScreenshotFlag) ELSE red1
        dpi  == Get(metadata, "dpi", None)
        red3 == IF ~dpi.none /\ dpi.v[1] < 150
                THEN Append(red2, LowDpiFlag(dpi.v[1])) ELSE red2
    IN  Returned(Signals(red3, <<>>, metadata))

\* the image branch, lines 189-202
ImageSignals(metadata) ==
    LET red1 == <<ImageFlag>>
        red2 == IF /\ "format" \in DOMAIN metadata
                   /\ metadata.format = "PNG"
                   /\ Get(metadata, "exif", {}) = {}
                THEN Append(red1, ScreenshotFlag) ELSE red1
        dpi  == Get(metadata, "dpi", None)
        red3 == IF ~dpi.none /\ dpi.v[1] < 150
                THEN Append(red2, LowDpiFlag(dpi.v[1])) ELSE red2
    IN  Returned(Signals(red3, <<>>, metadata))

analyze_document_authenticity_signals(file_data, filename) ==
    LET file_ext == Lower(SplitextExt(filename))
    IN  IF file_ext = <<".","p","d","f">>
        THEN PdfSignals(extract_pdf_metadata(file_data))
        ELSE IF file_ext \in { <<".","p","n","g">>, <<".","j","p","g">>,
                               <<".","j","p","e","g">> }
        THEN ImageSignals(extract_image_metadata(file_data))
        ELSE Returned(Signals(<<>>, <<>>, EmptyDict))


(***************************************************************************)
(* The evidence tools of FinancialDocumentAnalyst                          *)
(*                                                                         *)
(* input_str, the string the agent hands a tool:                            *)
(*   [kind, keys, b64ok, file_data, filename]                               *)
(*   kind      "nonjson" (json.loads raises), "nonobject" (JSON, but no     *)
(*             object) or "object"                                          *)
(*   keys      the keys of the object                                       *)
(*   b64ok     whether base64.b64decode accepts data['file_data']           *)
(*   file_data the bytes it decodes to;  filename  data['filename']         *)
(* A tool's outcome is [raised, text, vision_requests, llm_requests]: the   *)
(* text it returned (or the exception that left it) and the number of       *)
(* requests it sent to the vision model and to the text model (self.llm,    *)
(* which no tool calls).                                                    *)
(***************************************************************************)
Text(kind, prefix, detail, data) ==
    [kind |-> kind, prefix |-> prefix, detail |-> detail, data |-> data]

ToolReturn(text, requests) ==
    [raised |-> FALSE, text |-> text, vision_requests |-> requests,
     llm_requests |-> 0]

ToolRaise(exc, requests) ==
    [raised |-> TRUE, text |-> Text("exception", "", exc, EmptyDict),
     vision_requests |-> requests, llm_requests |-> 0]

\* except Exception as e: return f"<prefix>{str(e)}"
Except(outcome, prefix) ==
    IF outcome.raised
    THEN ToolReturn(Text("error", prefix, outcome.text.detail, EmptyDict),
                    outcome.vision_requests)
    ELSE outcome

\* json.loads(input_str); base64.b64decode(data['file_data']); data['filename']
\* (lines 119-121 and 140-142): the exception they end in, "" when none
PayloadFault(input_str) ==
    IF input_str.kind = "nonjson" THEN "JSONDecodeError"
    ELSE IF input_str.kind = "nonobject" THEN "TypeError"
    ELSE IF "file_data" \notin input_str.keys THEN "KeyError: 'file_data'"
    ELSE IF ~input_str.b64ok THEN "binascii.Error"
    ELSE IF "filename" \notin input_str.keys THEN "KeyError: 'filename'"
    ELSE ""

\* the try block of _analyze_metadata_tool, lines 119-133
analyze_metadata_try(input_str) ==
    IF PayloadFault(input_str) # ""
    THEN ToolRaise(PayloadFault(input_str), 0)
    ELSE LET signals == analyze_document_authenticity_signals(
                            input_str.file_data, input_str.filename)
         IN  IF signals.raised
             THEN ToolRaise(signals.exc, 0)
             ELSE ToolReturn(Text("signals", "", "",
                     [red_flags        |-> signals.value.red_flags,
                      positive_signals |-> signals.value.positive_signals,
                      metadata         |-> signals.value.metadata_analysis]), 0)

analyze_metadata_tool_noexcept(input_str) == analyze_metadata_try(input_str)

analyze_metadata_tool(input_str) ==
    Except(analyze_metadata_try(input_str), "Error analyzing metadata: ")

UnsupportedPdfNote ==
    Text("note", "",
         "PDF visual inspection requires conversion to image. For best results, upload as PNG/JPG.",
         EmptyDict)

\* the try block of _visual_inspection_tool, had it taken the extension
\* without lower()
visual_inspection_try_nolower(input_str, vision) ==
    IF PayloadFault(input_str) # ""
    THEN ToolRaise(PayloadFault(input_str), 0)
    ELSE IF SplitLast(input_str.filename) = <<"p","d","f">>
    THEN ToolReturn(UnsupportedPdfNote, 0)
    ELSE IF vision.raised
    THEN ToolRaise(vision.exc, 1)
    ELSE ToolReturn(Text("model", "", vision.value, EmptyDict), 1)

\* the try block of _visual_inspection_tool, lines 140-189; vision is the
\* outcome of self.vision_llm.invoke(messages), should the tool call it
visual_inspection_try(input_str, vision) ==
    IF PayloadFault(input_str) # ""
    THEN ToolRaise(PayloadFault(input_str), 0)
    ELSE IF SplitLast(Lower(input_str.filename)) = <<"p","d","f">>
    THEN ToolReturn(UnsupportedPdfNote, 0)
    ELSE IF vision.raised
    THEN ToolRaise(vision.exc, 1)
    ELSE ToolReturn(Text("model", "", vision.value, EmptyDict), 1)

visual_inspection_tool_noexcept(input_str, vision) ==
    visual_inspection_try(input_str, vision)

visual_inspection_tool(input_str, vision) ==
    Except(visual_inspection_try(input_str, vision),
           "Error during visual inspection: ")

FinancialRubric ==
    Text("rubric", "",
         "Based on the financial data visible in the document, analyze: ... Note: Detailed numerical analysis requires OCR extraction. This is a visual assessment.",
         EmptyDict)

\* the try block of _financial_analysis_tool, lines 197-212: json.loads, then
\* the fixed prompt text is returned as it is; no model is called
financial_analysis_try(input_str) ==
    IF input_str.kind = "nonjson"
    THEN ToolRaise("JSONDecodeError", 0)
    ELSE ToolReturn(FinancialRubric, 0)

financial_analysis_tool(input_str) ==
    Except(financial_analysis_try(input_str), "Error during financial analysis: ")

ToolNames == {"analyze_metadata", "visual_inspection", "financial_analysis"}

\* the Tool table of _setup_agent, lines 49-65: name -> func
RunTool(name, input_str, vision) ==
    IF name = "analyze_metadata" THEN analyze_metadata_tool(input_str)
    ELSE IF name = "visual_inspection" THEN visual_inspection_tool(input_str, vision)
    ELSE financial_analysis_tool(input_str)


(***************************************************************************)
(* FinancialDocumentAnalyst.generate_follow_up_questions                   *)
(*                                                                         *)
(* The content of the model's response is a sequence of tokens [t, v]:     *)
(* punctuation ("[", "]", "{", "}", ",", ":"), string literals, numbers,   *)
(* null, and words of prose that are no JSON.  json.loads is modelled on   *)
(* contents without nested arrays or objects.  A JSON value is             *)
(* [type, v, items]: a scalar has its text in v, an array its elements in  *)
(* items, an object its member values in items.                            *)
(***************************************************************************)
Punct(c) == [t |-> "punct", v |-> c]
Str(s) == [t |-> "string", v |-> s]
Num(s) == [t |-> "number", v |-> s]
Null == [t |-> "null", v |-> "null"]
Word(s) == [t |-> "word", v |-> s]

IsScalar(tok) == tok.t \in {"string", "number", "null"}

Scalar(tok) == [type |-> tok.t, v |-> tok.v, items |-> <<>>]

JList(items) == [type |-> "list", v |-> "", items |-> items]

JObject(values) == [type |-> "object", v |-> "", items |-> values]

\* value ("," value)*
IsElements(inner) ==
    /\ Len(inner) % 2 = 1
    /\ \A i \in 1..Len(inner) :
          IF i % 2 = 1 THEN IsScalar(inner[i]) ELSE inner[i] = Punct(",")

\* string ":" value ("," string ":" value)*
IsMembers(inner) ==
    /\ Len(inner) % 4 = 3
    /\ \A i \in 1..Len(inner) :
          CASE i % 4 = 1 -> inner[i].t = "string"
            [] i % 4 = 2 -> inner[i] = Punct(":")
            [] i % 4 = 3 -> IsScalar(inner[i])
            [] OTHER     -> inner[i] = Punct(",")

json_loads(s) ==
    LET inner == SubSeq(s, 2, Len(s) - 1)
    IN  IF Len(s) = 1 /\ IsScalar(s[1])
        THEN Returned(Scalar(s[1]))
        ELSE IF /\ Len(s) >= 2
                /\ s[1] = Punct("[") /\ s[Len(s)] = Punct("]")
                /\ (inner = <<>> \/ IsElements(inner))
        THEN Returned(JList([i \in 1..((Len(inner) + 1) \div 2) |->
                               Scalar(inner[2 * i - 1])]))
        ELSE IF /\ Len(s) >= 2
                /\ s[1] = Punct("{") /\ s[Len(s)] = Punct("}")
                /\ (inner = <<>> \/ IsMembers(inner))
        THEN Returned(JObject([i \in 1..((Len(inner) + 1) \div 4) |->
                                 Scalar(inner[4 * i - 1])]))
        ELSE Raised("JSONDecodeError")

\* the list of the except branch, lines 307-311
FallbackQuestions ==
    JList(<< Scalar(Str("Can you provide the original PDF statement directly from your bank's online portal?")),
             Scalar(Str("Do you have additional months of statements to show consistency?")),
             Scalar(Str("Can you provide a verification contact at your financial institution?")) >>)

\* llm: what self.llm.invoke(prompt) gave, Returned(content) or Raised(exc)
generate_follow_up_questions(llm) ==
    IF llm.raised
    THEN Returned(FallbackQuestions)
    ELSE LET questions == json_loads(llm.value)
         IN  IF questions.raised
             THEN Returned(FallbackQuestions)
             ELSE Returned(questions.value)

(***************************************************************************)
(* security_utils: AuditLogger and DataRetentionPolicy                     *)
(*                                                                         *)
(* SHA-256 is left uninterpreted: sha256_hexdigest(s) stands for the 64    *)
(* hex characters of the digest of s, First8(d) for the first 8 of d.  A   *)
(* logged name is [name_hash, clear]: the 8 hex characters it starts with  *)
(* and the text that follows them.                                         *)
(***************************************************************************)
sha256_hexdigest(s) == [sha256 |-> s]

First8(d) == [first8 |-> d]

\* s.rsplit('.', 1): the text before and after the last dot, or s alone
rsplit1(s) ==
    LET i == RFind(s, ".")
    IN  IF i = 0 THEN <<s>>
        ELSE <<SubSeq(s, 1, i - 1), SubSeq(s, i + 1, Len(s))>>

\* s.split('.', 1): the text before and after the first dot, or s alone
split1(s) ==
    IF \E i \in 1..Len(s) : s[i] = "."
    THEN LET i == CHOOSE k \in 1..Len(s) :
                     s[k] = "." /\ \A j \in 1..(k - 1) : s[j] # "."
         IN  <<SubSeq(s, 1, i - 1), SubSeq(s, i + 1, Len(s))>>
    ELSE <<s>>

\* _sanitize_filename, had it split at the first dot
sanitize_filename_split(filename) ==
    LET parts == split1(filename)
    IN  IF Len(parts) = 2
        THEN [name_hash |-> First8(sha256_hexdigest(parts[1])),
              clear |-> <<".">> \o parts[2]]
        ELSE [name_hash |-> First8(sha256_hexdigest(filename)), clear |-> <<>>]

sanitize_filename(filename) ==
    LET parts == rsplit1(filename)
    IN  IF Len(parts) = 2
        THEN [name_hash |-> First8(sha256_hexdigest(parts[1])),
              clear |-> <<".">> \o parts[2]]
        ELSE [name_hash |-> First8(sha256_hexdigest(filename)), clear |-> <<>>]

\* the log_entry of log_event, lines 53-60 (user_id and metadata are left at
\* their defaults by every caller but for metadata's one number)
log_entry(event_type, file_hash, filename) ==
    [timestamp  |-> "utcnow",
     event_type |-> event_type,
     file_hash  |-> file_hash,
     filename   |-> sanitize_filename(filename),
     user_id    |-> "anonymous"]

\* log_event: the file is read, the entry appended, the file written back
log_event(logs, event_type, file_hash, filename) ==
    Append(logs, log_entry(event_type, file_hash, filename))

MAX_RETENTION_HOURS == 24

MAX_ANALYSIS_RETENTION_DAYS == 90

\* datetimes are seconds since the epoch, a timedelta is a number of seconds
SecondsPerDay == 24 * 3600

\* timedelta.total_seconds()
total_seconds(td) == td

\* timedelta.days: the whole days of the normalised timedelta
days(td) == td \div SecondsPerDay

should_delete_file(now, upload_timestamp) ==
    LET time_elapsed == now - upload_timestamp
    IN  total_seconds(time_elapsed) > MAX_RETENTION_HOURS * 3600

should_delete_analysis(now, analysis_timestamp) ==
    LET time_elapsed == now - analysis_timestamp
    IN  days(time_elapsed) > MAX_ANALYSIS_RETENTION_DAYS

(***************************************************************************)
(* Inputs                                                                  *)
(***************************************************************************)
\* how far past MAX_FILE_SIZE the payload sizes go
MaxOver == 2

Sizes == {0, 1, MAX_FILE_SIZE - 1, MAX_FILE_SIZE}
            \cup {MAX_FILE_SIZE + k : k \in 1..MaxOver}

MagicOutcomes ==
    {Returned(m) : m \in {"application/pdf", "image/png", "image/jpeg",
                          "text/plain", "application/x-dosexec"}}
        \cup {Raised("MagicException")}

Filenames ==
    { <<"a",".","p","d","f">>, <<"a",".","P","D","F">>,
      <<"a",".","p","n","g">>, <<"x",".","J","P","G">>,
      <<"a",".","j","p","e","g">>, <<"a",".","e","x","e">>,
      <<"a">>, <<"p","d","f">>, <<".","p","d","f">>,
      <<"a",".","p","d","f",".","e","x","e">>,
      <<"b","/","a",".","b",".","p","n","g">> }

BrokenPdf ==
    [ok |-> FALSE, fault |-> "PdfReadError", num_pages |-> 0,
     encrypted |-> FALSE, info |-> None, text |-> Raised("PdfReadError")]

BrokenImage ==
    [ok |-> FALSE, fault |-> "UnidentifiedImageError", format |-> "",
     exif |-> {}, dpi |-> None]

CreatorStrings ==
    { <<>>,
      <<"A","d","o","b","e"," ","P","h","o","t","o","s","h","o","p">>,
      <<"M","i","c","r","o","s","o","f","t"," ","W","o","r","d">>,
      <<"M","i","c","r","o","s","o","f","t"," ","P","a","i","n","t">>,
      <<"L","a","T","e","X">> }

ProducerStrings ==
    { <<"G","I","M","P"," ","2",".","1","0">>,
      <<"A","c","r","o","b","a","t"," ","D","i","s","t","i","l","l","e","r">> }

DateStrings == [prefix : BOOLEAN, wellformed : BOOLEAN]

Dates == {None} \cup {Some(d) : d \in DateStrings}

Infos ==
    {None} \cup
    {Some(i) : i \in [creator      : {None} \cup {Some(s) : s \in CreatorStrings},
                      producer     : {None} \cup {Some(s) : s \in ProducerStrings},
                      creation     : Dates,
                      modification : Dates]}

PageTexts ==
    {Raised("IndexError"), Returned(<<>>), Returned(<<" ", "\n">>),
     Returned(<<"B","a","l","a","n","c","e">>)}

PdfBodies ==
    {BrokenPdf} \cup
    [ok : {TRUE}, fault : {""}, num_pages : {1}, encrypted : BOOLEAN,
     info : Infos, text : PageTexts]

ImageBodies ==
    {BrokenImage} \cup
    [ok : {TRUE}, fault : {""}, format : {"PNG", "JPEG"},
     exif : {{}, {"306"}},
     dpi : {None, Some(<<72, 72>>), Some(<<150, 150>>), Some(<<300, 300>>)}]

\* bytes as validate_file sees them: a size and what the sniffer says
ValidateBytes ==
    [size : Sizes, magic : MagicOutcomes, pdf : {BrokenPdf}, image : {BrokenImage}]

\* bytes as the metadata extractors see them: a PDF, an image, or neither
SignalBytes ==
    [size : {1}, magic : {Returned("application/pdf")},
     pdf : PdfBodies, image : {BrokenImage}]
    \cup
    [size : {1}, magic : {Returned("image/png")},
     pdf : {BrokenPdf}, image : ImageBodies]

WordPdf ==
    [ok |-> TRUE, fault |-> "", num_pages |-> 1, encrypted |-> FALSE,
     info |-> Some([creator  |-> Some(<<"M","i","c","r","o","s","o","f","t"," ","W","o","r","d">>),
                    producer |-> None,
                    creation |-> Some([prefix |-> TRUE, wellformed |-> TRUE]),
                    modification |-> Some([prefix |-> TRUE, wellformed |-> TRUE])]),
     text |-> Returned(<<"B","a","l","a","n","c","e">>)]

NoInfoPdf ==
    [ok |-> TRUE, fault |-> "", num_pages |-> 1, encrypted |-> FALSE,
     info |-> None, text |-> Returned(<<"B","a","l","a","n","c","e">>)]

PngScreenshot ==
    [ok |-> TRUE, fault |-> "", format |-> "PNG", exif |-> {}, dpi |-> None]

\* the bodies the tools and the request are exercised with
ToolBodies ==
    { [pdf |-> WordPdf,   image |-> BrokenImage],
      [pdf |-> NoInfoPdf, image |-> BrokenImage],
      [pdf |-> BrokenPdf, image |-> PngScreenshot],
      [pdf |-> BrokenPdf, image |-> BrokenImage] }

Bytes(size, magic, body) ==
    [size |-> size, magic |-> magic, pdf |-> body.pdf, image |-> body.image]

ToolBytes ==
    {Bytes(1, m, b) : m \in {Returned("application/pdf"), Returned("image/png")},
                      b \in ToolBodies}

NonJson ==
    [kind |-> "nonjson", keys |-> {}, b64ok |-> FALSE,
     file_data |-> Bytes(0, Returned("text/plain"),
                         [pdf |-> BrokenPdf, image |-> BrokenImage]),
     filename |-> <<>>]

NonObject == [NonJson EXCEPT !.kind = "nonobject"]

Object(keys, b64ok, file_data, filename) ==
    [kind |-> "object", keys |-> keys, b64ok |-> b64ok,
     file_data |-> file_data, filename |-> filename]

PayloadKeys == SUBSET {"file_data", "filename", "document_type"}

Payloads ==
    {NonJson, NonObject} \cup
    {Object(k, b, fd, fn) : k \in PayloadKeys, b \in BOOLEAN,
                            fd \in ToolBytes, fn \in Filenames}

VisionOutcomes == {Returned("visual analysis"), Raised("APIConnectionError")}

\* the longest array of questions in a response
MaxQuestions == 6

Question(i) == Str("question " \o ToString(i))

\* json.dumps of a list: "[" item "," item ... "]"
ArrayOf(items) ==
    <<Punct("[")>>
    \o [i \in 1..(IF Len(items) = 0 THEN 0 ELSE 2 * Len(items) - 1) |->
           IF i % 2 = 1 THEN items[(i + 1) \div 2] ELSE Punct(",")]
    \o <<Punct("]")>>

QuestionArrays == { ArrayOf([i \in 1..n |-> Question(i)]) : n \in 0..MaxQuestions }

ResponseContents ==
    QuestionArrays \cup
    { ArrayOf(<<Question(1), Num("2"), Question(3)>>),
      ArrayOf(<<Null, Null, Null>>),
      <<Punct("{"), Str("questions"), Punct(":"), Str("none"), Punct("}")>>,
      <<Punct("{"), Punct("}")>>,
      <<Num("42")>>,
      <<Str("Can you provide more statements?")>>,
      <<Null>>,
      <<>>,
      <<Word("Here"), Word("are"), Word("the"), Word("questions")>>,
      <<Word("Here")>> \o ArrayOf(<<Question(1), Question(2), Question(3)>>),
      <<Punct("["), Question(1), Punct(",")>>,
      <<Punct("["), Question(1), Punct(","), Punct("]")>>,
      <<Punct("["), Question(1), Question(2), Punct("]")>> }

LlmOutcomes ==
    { Returned(c) : c \in ResponseContents }
    \cup { Raised("APIConnectionError"), Raised("RateLimitError") }

LoggedFilenames ==
    Filenames \cup
    { <<"j","o","h","n","_","s","m","i","t","h",".","p","d","f">>,
      <<"j","o","h","n","_","s","m","i","t","h">>,
      <<"j","o","h","n",".">>,
      <<"s","t","a","t","e","m","e","n","t",".","j","o","h","n">> }

EventTypes == {"document_upload", "document_analysis", "document_deletion"}

FileHashes == {"9f86d081"}

\* how many seconds around each hour of Ages the timestamps lie
MaxSkew == 2

\* datetime.now()
Now == 200 * SecondsPerDay

\* ages in hours: around the 24 hours and around the 90 days
Ages == {0, 23, 24, 25, 89 * 24, 90 * 24, 90 * 24 + 1, 90 * 24 + 23,
         91 * 24, 91 * 24 + 1}

Timestamps ==
    { Now - (h * 3600 + k) : h \in Ages, k \in (0 - MaxSkew)..MaxSkew }

(***************************************************************************)
(* Direct calls of the functions: one call, with its arguments drawn from   *)
(* the input sets, and what it gave                                        *)
(***************************************************************************)
NoCall == [op |-> "none"]

CallValidateFile ==
    /\ unit = NoCall
    /\ \E file_data \in ValidateBytes, filename \in Filenames :
          unit' = [op |-> "validate_file", file_data |-> file_data,
                   filename |-> filename,
                   out |-> validate_file(file_data, filename)]
    /\ UNCHANGED <<audit_log, log_calls, request>>

CallSignals ==
    /\ unit = NoCall
    /\ \E file_data \in SignalBytes, filename \in Filenames :
          unit' = [op |-> "analyze_document_authenticity_signals",
                   file_data |-> file_data, filename |-> filename,
                   out |-> analyze_document_authenticity_signals(file_data, filename)]
    /\ UNCHANGED <<audit_log, log_calls, request>>

CallTool ==
    /\ unit = NoCall
    /\ \E name \in ToolNames, input_str \in Payloads, vision \in VisionOutcomes :
          unit' = [op |-> name, input_str |-> input_str, vision |-> vision,
                   out |-> RunTool(name, input_str, vision)]
    /\ UNCHANGED <<audit_log, log_calls, request>>


CallFollowUp ==
    /\ unit = NoCall
    /\ \E llm \in LlmOutcomes :
          unit' = [op |-> "generate_follow_up_questions", llm |-> llm,
                   out |-> generate_follow_up_questions(llm)]
    /\ UNCHANGED <<audit_log, log_calls, request>>

CallLogEvent ==
    /\ unit = NoCall
    /\ \E event_type \in EventTypes, file_hash \in FileHashes,
          filename \in LoggedFilenames :
          /\ audit_log' = log_event(audit_log, event_type, file_hash, filename)
          /\ unit' = [op |-> "log_event", event_type |-> event_type,
                      file_hash |-> file_hash, filename |-> filename]
    /\ UNCHANGED <<log_calls, request>>

CallShouldDeleteFile ==
    /\ unit = NoCall
    /\ \E upload_timestamp \in Timestamps :
          unit' = [op |-> "should_delete_file", now |-> Now,
                   timestamp |-> upload_timestamp,
                   out |-> should_delete_file(Now, upload_timestamp)]
    /\ UNCHANGED <<audit_log, log_calls, request>>

CallShouldDeleteAnalysis ==
    /\ unit = NoCall
    /\ \E analysis_timestamp \in Timestamps :
          unit' = [op |-> "should_delete_analysis", now |-> Now,
                   timestamp |-> analysis_timestamp,
                   out |-> should_delete_analysis(Now, analysis_timestamp)]
    /\ UNCHANGED <<audit_log, log_calls, request>>

(***************************************************************************)
(* FinancialDocumentAnalyst.analyze_document                               *)
(***************************************************************************)
\* AgentExecutor(max_iterations=5, handle_parsing_errors=True)
max_iterations == 5

\* the output of an executor stopped by its iteration limit
\* (early_stopping_method is left at "force")
StopMessage ==
    [kind |-> "stopped",
     text |-> "Agent stopped due to iteration limit or time limit.",
     words |-> {}]

\* the words of an answer that display_analysis_results looks for
RecommendationWords == {"approve", "deny", "review", "more"}

\* the answers the agent is let to give
FinalWords == {{}, {"approve"}, {"deny", "more"}}

FinalAnswer(words) ==
    [kind |-> "final", text |-> "final answer", words |-> words]

\* display_analysis_results, lines 261-266: the recommendation read off the
\* analysis text; "unknown" when no branch is taken
Recommendation(analysis) ==
    IF "approve" \in analysis.words THEN "approve"
    ELSE IF "deny" \in analysis.words THEN "deny"
    ELSE IF "review" \in analysis.words \/ "more" \in analysis.words
    THEN "request_more"
    ELSE "unknown"

ErrorText(prefix, reason) == [prefix |-> prefix, reason |-> reason]

Success(output) ==
    [success |-> TRUE, analysis |-> output, raw_result |-> [output |-> output]]

Failure(prefix, reason) ==
    [success |-> FALSE, error |-> ErrorText(prefix, reason)]

NoResult == [pending |-> TRUE]

NotValidated == Returned([is_valid |-> FALSE, error |-> "not validated"])

RequestBodies ==
    { [pdf |-> NoInfoPdf, image |-> BrokenImage],
      [pdf |-> BrokenPdf, image |-> PngScreenshot] }

RequestBytes ==
    {Bytes(s, m, b) : s \in {1, MAX_FILE_SIZE + 1},
                      m \in {Returned("application/pdf"), Returned("text/plain"),
                             Raised("MagicException")},
                      b \in RequestBodies}

RequestFilenames ==
    { <<"a",".","p","d","f">>, <<"a",".","p","n","g">>, <<"a",".","e","x","e">> }

\* tool_input, lines 243-248
tool_input(d) ==
    Object({"file_data", "filename", "document_type"}, TRUE, d.file_data, d.filename)

\* the input strings the agent may hand a tool: tool_input as it was given,
\* or a string it has mangled
AgentPayloads(d) ==
    { tool_input(d),
      NonJson,
      Object({"filename", "document_type"}, TRUE, d.file_data, d.filename),
      Object({"file_data", "filename", "document_type"}, FALSE, d.file_data, d.filename) }

Entry(tool, kind) == [tool |-> tool, kind |-> kind]

\* AgentExecutor._should_continue
ShouldContinue_le(n) == n <= max_iterations

ShouldContinue(n) == n < max_iterations

\* lines 234-263: the call, the validation and the preparation of the request
AnalyzeDocument_novalidate(file_data, filename) ==
    /\ pc = "idle"
    /\ doc' = [file_data |-> file_data, filename |-> filename]
    /\ LET v == validate_file(file_data, filename)
       IN  /\ validation' = v
           /\ IF v.raised
              THEN /\ pc' = "raised"
                   /\ result' = [exception |-> v.exc]
              ELSE /\ pc' = "agent"
                   /\ result' = result
    /\ UNCHANGED <<unit, audit_log, log_calls, iterations, agent_calls, conversation,
                   vision_failed, agent_fault>>

AnalyzeDocument(file_data, filename) ==
    /\ pc = "idle"
    /\ doc' = [file_data |-> file_data, filename |-> filename]
    /\ LET v == validate_file(file_data, filename)
       IN  /\ validation' = v
           /\ IF v.raised
              THEN /\ pc' = "raised"
                   /\ result' = [exception |-> v.exc]
              ELSE IF ~v.value.is_valid
              THEN /\ pc' = "done"
                   /\ result' = Failure("", v.value.error)
              ELSE /\ pc' = "agent"
                   /\ result' = result
    /\ UNCHANGED <<unit, audit_log, log_calls, iterations, agent_calls, conversation,
                   vision_failed, agent_fault>>

\* lines 267-275: the agent gives its final answer
AgentFinish(words) ==
    /\ pc = "agent"
    /\ ShouldContinue(iterations)
    /\ agent_calls' = agent_calls + 1
    /\ result' = Success(FinalAnswer(words))
    /\ pc' = "done"
    /\ UNCHANGED <<unit, audit_log, log_calls, doc, validation, iterations, conversation,
                   vision_failed, agent_fault>>

\* one iteration: the agent asks for a tool, the executor runs it and feeds
\* its text back; an exception leaving the tool leaves invoke (line 277)
AgentTool_escalate(name, input_str, vision) ==
    /\ pc = "agent"
    /\ ShouldContinue(iterations)
    /\ agent_calls' = agent_calls + 1
    /\ LET r == RunTool(name, input_str, vision)
           twice == /\ ~r.raised
                    /\ r.text.kind = "error"
                    /\ conversation # <<>>
                    /\ conversation[Len(conversation)] = Entry(name, "error")
       IN  /\ vision_failed' = (vision_failed \/
                                  (r.vision_requests > 0 /\ vision.raised))
           /\ IF r.raised
              THEN /\ result' = Failure("Analysis failed: ", r.text.detail)
                   /\ pc' = "done"
                   /\ UNCHANGED <<iterations, conversation>>
              ELSE IF twice
              THEN /\ conversation' = Append(conversation, Entry(name, r.text.kind))
                   /\ iterations' = iterations + 1
                   /\ result' = Failure("Analysis failed: ", r.text.detail)
                   /\ pc' = "done"
              ELSE /\ conversation' = Append(conversation, Entry(name, r.text.kind))
                   /\ iterations' = iterations + 1
                   /\ UNCHANGED <<pc, result>>
    /\ UNCHANGED <<unit, audit_log, log_calls, doc, validation, agent_fault>>

AgentTool(name, input_str, vision) ==
    /\ pc = "agent"
    /\ ShouldContinue(iterations)
    /\ agent_calls' = agent_calls + 1
    /\ LET r == RunTool(name, input_str, vision)
       IN  /\ vision_failed' = (vision_failed \/
                                  (r.vision_requests > 0 /\ vision.raised))
           /\ IF r.raised
              THEN /\ result' = Failure("Analysis failed: ", r.text.detail)
                   /\ pc' = "done"
                   /\ UNCHANGED <<iterations, conversation>>
              ELSE /\ conversation' = Append(conversation, Entry(name, r.text.kind))
                   /\ iterations' = iterations + 1
                   /\ UNCHANGED <<pc, result>>
    /\ UNCHANGED <<unit, audit_log, log_calls, doc, validation, agent_fault>>

\* one iteration: the agent's tool request cannot be parsed;
\* handle_parsing_errors=True feeds the error back instead of raising
AgentMalformed ==
    /\ pc = "agent"
    /\ ShouldContinue(iterations)
    /\ agent_calls' = agent_calls + 1
    /\ conversation' = Append(conversation, Entry("_Exception", "error"))
    /\ iterations' = iterations + 1
    /\ UNCHANGED <<unit, audit_log, log_calls, pc, doc, validation, vision_failed, agent_fault, result>>

\* lines 277-281: the call of the reasoning agent fails (network, auth)
AgentFault(exc) ==
    /\ pc = "agent"
    /\ ShouldContinue(iterations)
    /\ agent_calls' = agent_calls + 1
    /\ agent_fault' = TRUE
    /\ result' = Failure("Analysis failed: ", exc)
    /\ pc' = "done"
    /\ UNCHANGED <<unit, audit_log, log_calls, doc, validation, iterations, conversation, vision_failed>>

\* the iteration limit is reached: the executor returns its stop message
AgentStop ==
    /\ pc = "agent"
    /\ ~ShouldContinue(iterations)
    /\ result' = Success(StopMessage)
    /\ pc' = "done"
    /\ UNCHANGED <<unit, audit_log, log_calls, doc, validation, iterations, agent_calls, conversation,
                   vision_failed, agent_fault>>

(***************************************************************************)
(* Concurrent calls of audit_logger.log_event                              *)
(*                                                                         *)
(* The module has one AuditLogger and one log file, and log_event takes no *)
(* lock: between its read_text and its write_text other calls may run.     *)
(* A call is at "idle" (not made), at "appended" (it has read the file and *)
(* appended its entry to the list in its memory) or at "returned".         *)
(***************************************************************************)
\* how many calls of log_event there are at the same time
MaxCallers == 3

Callers == 1..MaxCallers

ConcurrentEvents == {"document_upload", "document_analysis"}

IdleCall == [pc |-> "idle", logs |-> <<>>]

\* lines 50-62: logs = json.loads(self.log_file.read_text()), log_entry is
\* built and logs.append(log_entry)
LogEventRead(p, event_type, file_hash, filename) ==
    /\ log_calls[p].pc = "idle"
    /\ log_calls' =
          [log_calls EXCEPT
             ![p] = [pc |-> "appended",
                     logs |-> log_event(audit_log, event_type, file_hash,
                                        filename)]]
    /\ UNCHANGED <<unit, audit_log, request>>

\* line 65: self.log_file.write_text(json.dumps(logs, indent=2))
LogEventWrite(p) ==
    /\ log_calls[p].pc = "appended"
    /\ audit_log' = log_calls[p].logs
    /\ log_calls' = [log_calls EXCEPT ![p] = [pc |-> "returned", logs |-> <<>>]]
    /\ UNCHANGED <<unit, request>>

(***************************************************************************)
(* Specifications                                                          *)
(***************************************************************************)
Init ==
    /\ unit = NoCall
    /\ pc = "idle"
    /\ doc = [file_data |-> NonJson.file_data, filename |-> <<>>]
    /\ validation = NotValidated
    /\ iterations = 0
    /\ agent_calls = 0
    /\ conversation = <<>>
    /\ vision_failed = FALSE
    /\ agent_fault = FALSE
    /\ result = NoResult
    /\ audit_log = <<>>
    /\ log_calls = [p \in Callers |-> IdleCall]

\* one analyze_document request
Next ==
    \/ \E file_data \in RequestBytes, filename \in RequestFilenames :
          AnalyzeDocument(file_data, filename)
    \/ \E words \in FinalWords : AgentFinish(words)
    \/ \E name \in ToolNames, vision \in VisionOutcomes :
          \E input_str \in AgentPayloads(doc) : AgentTool(name, input_str, vision)
    \/ AgentMalformed
    \/ \E exc \in {"AuthenticationError"} : AgentFault(exc)
    \/ AgentStop

Spec == Init /\ [][Next]_vars

\* the functions called one by one
NextCalls ==
    \/ CallValidateFile
    \/ CallSignals
    \/ CallTool
    \/ CallFollowUp
    \/ CallLogEvent
    \/ CallShouldDeleteFile
    \/ CallShouldDeleteAnalysis

SpecCalls == Init /\ [][NextCalls]_vars

\* log_event called by several requests at the same time
NextLog ==
    \/ \E p \in Callers, event_type \in ConcurrentEvents,
          file_hash \in FileHashes :
          LogEventRead(p, event_type, file_hash, <<"a",".","p","d","f">>)
    \/ \E p \in Callers : LogEventWrite(p)

SpecLog == Init /\ [][NextLog]_vars


(***************************************************************************)
(* Properties                                                              *)
(***************************************************************************)
Validated == ~validation.raised /\ validation.value.is_valid

Rejected == pc # "idle" /\ ~validation.raised /\ ~validation.value.is_valid

IsSuccess(r) ==
    /\ DOMAIN r = {"success", "analysis", "raw_result"}
    /\ r.success = TRUE

IsFailure(r) ==
    /\ DOMAIN r = {"success", "error"}
    /\ r.success = FALSE

\* the one MIME type that goes with an extension
CompatibleMime(ext) ==
    IF ext = <<".","p","d","f">> THEN "application/pdf"
    ELSE IF ext = <<".","p","n","g">> THEN "image/png"
    ELSE "image/jpeg"

CallExt == Lower(SplitextExt(unit.filename))

IsValidateCall == unit.op = "validate_file"

\* a validate_file call that gets as far as sniffing the content
ReachesSniffing ==
    /\ IsValidateCall
    /\ unit.file_data.size <= MAX_FILE_SIZE
    /\ CallExt \in ALLOWED_EXTENSIONS

\* C1: validation comes first and is terminal.  A request whose document
\* validate_file rejects has ended with a failure result carrying the
\* validation reason, with no invocation of the reasoning agent and no tool
\* result; the agent is invoked, and a tool run, only in a request whose
\* document validate_file has found valid.
C1_ValidationFirst ==
    /\ pc # "idle" => validation = validate_file(doc.file_data, doc.filename)
    /\ Rejected =>
          /\ pc = "done"
          /\ result = Failure("", validation.value.error)
          /\ agent_calls = 0
          /\ iterations = 0
          /\ conversation = <<>>
    /\ (agent_calls > 0 \/ iterations > 0 \/ conversation # <<>>) => Validated

C1_Witness ==
    /\ Rejected
    /\ pc = "done"
    /\ result = Failure("", MismatchMsg)

\* C2: validate_file rejects, with the content-type mismatch reason, every
\* file (of allowed size and extension) whose sniffed MIME type is not the
\* one that goes with its extension, and passes it when the type is that one.
C2_ExtensionContentAgreement ==
    (ReachesSniffing /\ ~unit.file_data.magic.raised) =>
        IF unit.file_data.magic.value = CompatibleMime(CallExt)
        THEN unit.out = Returned([is_valid |-> TRUE, error |-> ""])
        ELSE unit.out = Returned([is_valid |-> FALSE, error |-> MismatchMsg])

\* C3: the size check is an inclusive ceiling.  A payload of MAX_FILE_SIZE + 1
\* bytes or more fails with the too-large reason whatever its extension and
\* content; a payload of exactly MAX_FILE_SIZE bytes with an allowed extension
\* and the matching content passes.
C3_SizeCeiling ==
    IsValidateCall =>
        /\ unit.file_data.size >= MAX_FILE_SIZE + 1 =>
              unit.out = Returned([is_valid |-> FALSE, error |-> TooLargeMsg])
        /\ ( /\ unit.file_data.size = MAX_FILE_SIZE
             /\ CallExt \in ALLOWED_EXTENSIONS
             /\ ~unit.file_data.magic.raised
             /\ unit.file_data.magic.value = CompatibleMime(CallExt) ) =>
              unit.out = Returned([is_valid |-> TRUE, error |-> ""])

C3_Witness ==
    /\ IsValidateCall
    /\ unit.file_data.size = MAX_FILE_SIZE
    /\ unit.out = Returned([is_valid |-> TRUE, error |-> ""])

\* C4: validate_file fails closed.  When the sniffer raises, validate_file
\* returns an invalid result with the content-type mismatch reason; it does
\* not return valid and does not raise.
C4_SniffFaultFailsClosed ==
    (ReachesSniffing /\ unit.file_data.magic.raised) =>
        unit.out = Returned([is_valid |-> FALSE, error |-> MismatchMsg])

IsSignalsCall == unit.op = "analyze_document_authenticity_signals"

\* the metadata extraction of a signals call has failed
ExtractionFailed ==
    \/ /\ CallExt = <<".","p","d","f">>
       /\ "error" \in DOMAIN extract_pdf_metadata(unit.file_data)
    \/ /\ CallExt \in ALLOWED_EXTENSIONS \ { <<".","p","d","f">> }
       /\ "error" \in DOMAIN extract_image_metadata(unit.file_data)

\* C5: analyze_document_authenticity_signals absorbs every parse fault.  The
\* call never raises (also when the creator and producer fields are absent),
\* and when the extraction has failed the bundle's metadata has the error
\* entry and no other, and red_flags and positive_signals are both empty.
C5_ParseFaultAbsorbed ==
    IsSignalsCall =>
        /\ ~unit.out.raised
        /\ ExtractionFailed =>
              /\ DOMAIN unit.out.value.metadata_analysis = {"error"}
              /\ unit.out.value.red_flags = <<>>
              /\ unit.out.value.positive_signals = <<>>

\* the request has ended, its document was valid, the agent has never given
\* a final answer and no invocation of it has failed
EndedWithoutAnswer ==
    /\ pc = "done"
    /\ Validated
    /\ ~agent_fault
    /\ ~("analysis" \in DOMAIN result /\ result.analysis.kind = "final")

\* C6: the tool-use loop is bounded.  The executor never makes more than 5
\* iterations; a request in which the agent asks for a tool (or gives a
\* malformed request) every time and never answers ends after exactly 5
\* iterations with a success result that holds the executor's stop message,
\* from which no recommendation is read (unknown).
C6_IterationCap ==
    /\ iterations <= 5
    /\ agent_calls <= 5
    /\ EndedWithoutAnswer =>
          /\ iterations = 5
          /\ Len(conversation) = 5
          /\ result = Success(StopMessage)
          /\ Recommendation(result.analysis) = "unknown"

C6_Witness ==
    /\ EndedWithoutAnswer
    /\ iterations = 5
    /\ agent_calls = 5
    /\ result = Success(StopMessage)

IsToolCall == unit.op \in ToolNames

\* what the try block of the called tool ends in
TryOutcome ==
    IF unit.op = "analyze_metadata" THEN analyze_metadata_try(unit.input_str)
    ELSE IF unit.op = "visual_inspection"
    THEN visual_inspection_try(unit.input_str, unit.vision)
    ELSE financial_analysis_try(unit.input_str)

ErrorPrefix ==
    IF unit.op = "analyze_metadata" THEN "Error analyzing metadata: "
    ELSE IF unit.op = "visual_inspection" THEN "Error during visual inspection: "
    ELSE "Error during financial analysis: "

\* C7: no evidence tool lets a fault cross its boundary.  For every input
\* string and every behaviour of the vision model the tool returns; when its
\* try block has ended in an exception, what it returns is the error text for
\* that exception.
C7_ToolsNeverRaise ==
    IsToolCall =>
        /\ ~unit.out.raised
        /\ TryOutcome.raised =>
              unit.out.text =
                  Text("error", ErrorPrefix, TryOutcome.text.detail, EmptyDict)

C7_Witness ==
    /\ IsToolCall
    /\ unit.op = "visual_inspection"
    /\ unit.vision.raised
    /\ unit.out.vision_requests = 1
    /\ ~unit.out.raised
    /\ unit.out.text.kind = "error"

HasEntry(e) == \E i \in 1..Len(conversation) : conversation[i] = e

\* C8: a failing vision-model call does not abort the analysis.  Once a
\* vision request has failed, the failure is in the conversation as the
\* visual-inspection tool's error text, the request goes on (it is with the
\* agent, which may run the metadata and the financial tool, or has ended),
\* and unless an invocation of the reasoning agent fails the request ends
\* with a success result.
C8_VisionFaultDegrades ==
    vision_failed =>
        /\ HasEntry(Entry("visual_inspection", "error"))
        /\ pc \in {"agent", "done"}
        /\ (pc = "done" /\ ~agent_fault) => IsSuccess(result)

C8_Witness ==
    /\ pc = "done"
    /\ vision_failed
    /\ IsSuccess(result)
    /\ \E i \in 1..Len(conversation) :
          /\ conversation[i] = Entry("visual_inspection", "error")
          /\ \E j \in (i+1)..Len(conversation) :
                conversation[j].tool = "analyze_metadata"
          /\ \E k \in (i+1)..Len(conversation) :
                conversation[k] = Entry("financial_analysis", "rubric")

\* C9: analyze_document never raises and ends in one of two outcomes: a
\* success result with the analysis and no error, or a failure result with
\* one error and no analysis; a failed invocation of the reasoning agent
\* gives the failure outcome.
C9_TwoOutcomes ==
    pc \in {"done", "raised"} =>
        /\ pc = "done"
        /\ IsSuccess(result) \/ IsFailure(result)
        /\ agent_fault => IsFailure(result)

\* the same evidence tool has failed on two consecutive invocations
TwiceInARow ==
    \E i \in 1..(Len(conversation) - 1) :
        /\ conversation[i].tool \in ToolNames
        /\ conversation[i].kind = "error"
        /\ conversation[i + 1] = conversation[i]

\* the document's bytes make the metadata tool fail on the tool input as given
DocBreaksMetadataTool ==
    analyze_metadata_tool(tool_input(doc)).text.kind = "error"

MetadataFailedTwice ==
    \E i \in 1..(Len(conversation) - 1) :
        /\ conversation[i] = Entry("analyze_metadata", "error")
        /\ conversation[i + 1] = Entry("analyze_metadata", "error")

\* C10, as claimed: when document bytes make the same evidence tool fail on
\* two consecutive invocations, the analysis ends with a failure result.
C10_TwiceInARowFails ==
    (pc = "done" /\ DocBreaksMetadataTool /\ MetadataFailedTwice) =>
        IsFailure(result)

\* C10, amended: when the same evidence tool has failed on two consecutive
\* invocations, both failures were absorbed as error text, and the analysis
\* ends with a failure result only if an invocation of the reasoning agent
\* has failed; otherwise it ends with a success result.
C10_TwiceInARowAbsorbed ==
    (pc = "done" /\ TwiceInARow) =>
        IF agent_fault
        THEN IsFailure(result) /\ result.error.prefix = "Analysis failed: "
        ELSE IsSuccess(result)

C10_Witness ==
    /\ pc = "done"
    /\ DocBreaksMetadataTool
    /\ MetadataFailedTwice
    /\ IsSuccess(result)

(***************************************************************************)
(* Follow-up questions                                                     *)
(***************************************************************************)
IsFollowUpCall == unit.op = "generate_follow_up_questions"

\* the response content parses, and what it parses to is a list
ParsesAsList(llm) ==
    /\ ~llm.raised
    /\ ~json_loads(llm.value).raised
    /\ json_loads(llm.value).value.type = "list"

\* C11: generate_follow_up_questions never raises, and whenever the model
\* call raised or its response is not parseable as a list it returns the
\* fixed fallback list of three questions, in the same order.
C11_FallbackExactly ==
    IsFollowUpCall =>
        /\ ~unit.out.raised
        /\ ~ParsesAsList(unit.llm) => unit.out.value = FallbackQuestions

InList(seq, x) == \E i \in 1..Len(seq) : seq[i] = x

\* a signals call on a .pdf filename whose bytes PyPDF2 reads
IsPdfCall ==
    /\ IsSignalsCall
    /\ CallExt = <<".","p","d","f">>
    /\ unit.file_data.pdf.ok

\* the document's /Creator is s
CreatorIs(s) ==
    /\ ~unit.file_data.pdf.info.none
    /\ unit.file_data.pdf.info.v.creator = Some(s)

\* the document's /Producer as the extractor reports it
ProducerText == InfoGet(unit.file_data.pdf.info.v.producer, Unknown)

\* page 1 gives text that is not blank
PageTextExtractable ==
    /\ ~unit.file_data.pdf.text.raised
    /\ \E i \in 1..Len(unit.file_data.pdf.text.value) :
          unit.file_data.pdf.text.value[i] \notin Whitespace

\* both /CreationDate and /ModDate are in the document
BothDatesPresent ==
    /\ ~unit.file_data.pdf.info.v.creation.none
    /\ ~unit.file_data.pdf.info.v.modification.none

\* ... and both have the form _parse_pdf_date reads
BothDatesParse ==
    /\ BothDatesPresent
    /\ unit.file_data.pdf.info.v.creation.v.wellformed
    /\ unit.file_data.pdf.info.v.modification.v.wellformed

HasEditingFlag(red) ==
    \E i \in 1..Len(red) : red[i].text = EditingFlag(<<>>).text

Photoshop == <<"A","d","o","b","e"," ","P","h","o","t","o","s","h","o","p">>

MicrosoftWord == <<"M","i","c","r","o","s","o","f","t"," ","W","o","r","d">>

\* an encrypted PDF without page-1 text, created by "Adobe Photoshop", with
\* no allowlisted name in creator or producer
EncryptedPhotoshopPdf ==
    /\ IsPdfCall
    /\ unit.file_data.pdf.encrypted
    /\ ~PageTextExtractable
    /\ CreatorIs(Photoshop)
    /\ ~AnyToolIn(legitimate_tools, Lower(Photoshop), Lower(ProducerText))

ThreeRedFlags ==
    /\ ~unit.out.raised
    /\ InList(unit.out.value.red_flags, EncryptedFlag)
    /\ InList(unit.out.value.red_flags, NotExtractableFlag)
    /\ InList(unit.out.value.red_flags, EditingFlag(Lower(Photoshop)))

\* C13 as stated: for every encrypted PDF without extractable page-1 text
\* whose creator is "Adobe Photoshop" (no allowlist match), red_flags holds
\* the encryption, the text-not-extractable and the editing-software flag and
\* positive_signals is empty.
C13_EncryptedPhotoshopNoPositives ==
    EncryptedPhotoshopPdf =>
        /\ ThreeRedFlags
        /\ unit.out.value.positive_signals = <<>>

\* C13 amended: for every such PDF red_flags holds the three flags, and
\* positive_signals is empty unless the document has a creation and a
\* modification date that both parse; then it holds the timestamps signal
\* and nothing else.
C13_EncryptedPhotoshopTimestampsOnly ==
    EncryptedPhotoshopPdf =>
        /\ ThreeRedFlags
        /\ unit.out.value.positive_signals =
              IF BothDatesParse THEN <<TimestampsSignal>> ELSE <<>>

C13_Witness ==
    /\ EncryptedPhotoshopPdf
    /\ BothDatesParse
    /\ unit.out.value.red_flags =
          <<EncryptedFlag, NotExtractableFlag, EditingFlag(Lower(Photoshop))>>
    /\ unit.out.value.positive_signals = <<TimestampsSignal>>

\* a PDF that is not encrypted, has page-1 text, creator "Microsoft Word" and
\* both dates
WordPdfWithDates ==
    /\ IsPdfCall
    /\ ~unit.file_data.pdf.encrypted
    /\ PageTextExtractable
    /\ CreatorIs(MicrosoftWord)
    /\ BothDatesPresent

TwoPositives ==
    /\ ~unit.out.raised
    /\ Len(unit.out.value.positive_signals) >= 2
    /\ InList(unit.out.value.positive_signals, ExtractableSignal)
    /\ InList(unit.out.value.positive_signals,
              LegitimateSignal(Lower(MicrosoftWord)))
    /\ ~InList(unit.out.value.red_flags, EncryptedFlag)
    /\ ~InList(unit.out.value.red_flags, NotExtractableFlag)

\* C14 as stated: for every non-encrypted PDF with page-1 text, creator
\* "Microsoft Word" and both dates, there are at least two positive signals,
\* the text-extractable and the legitimate-software one among them, and none
\* of the encryption, text-not-extractable and editing-software red flags,
\* whatever the producer is.
C14_WordPdfNoRedFlags ==
    WordPdfWithDates =>
        /\ TwoPositives
        /\ ~HasEditingFlag(unit.out.value.red_flags)

\* C14 amended: for every such PDF there are the two positive signals and
\* neither the encryption nor the text-not-extractable flag; the
\* editing-software flag is there exactly when the producer holds a name of
\* the denylist.
C14_WordPdfEditingFlagByProducer ==
    WordPdfWithDates =>
        /\ TwoPositives
        /\ HasEditingFlag(unit.out.value.red_flags)
              <=> \E i \in 1..Len(suspicious_tools) :
                     Contains(Lower(ProducerText), suspicious_tools[i])

C14_Witness ==
    /\ WordPdfWithDates
    /\ unit.file_data.pdf.info.v.producer = Some(<<"G","I","M","P"," ","2",".","1","0">>)
    /\ InList(unit.out.value.positive_signals, ExtractableSignal)
    /\ InList(unit.out.value.positive_signals, LegitimateSignal(Lower(MicrosoftWord)))
    /\ unit.out.value.red_flags = <<EditingFlag(Lower(MicrosoftWord))>>

\* a signals call on a .png, .jpg or .jpeg filename
IsImageCall ==
    /\ IsSignalsCall
    /\ CallExt \in { <<".","p","n","g">>, <<".","j","p","g">>,
                     <<".","j","p","e","g">> }

\* the bytes are a PNG image without EXIF entries
PngWithoutExif ==
    /\ unit.file_data.image.ok
    /\ unit.file_data.image.format = "PNG"
    /\ unit.file_data.image.exif = {}

\* C15: on the image path the baseline 'submitted as image' red flag is
\* always the first of red_flags, a PNG without EXIF entries also gets the
\* 'likely a screenshot' red flag, and positive_signals is empty.
C15_ImageBaselineAndScreenshot ==
    IsImageCall =>
        /\ ~unit.out.raised
        /\ Len(unit.out.value.red_flags) >= 1
        /\ unit.out.value.red_flags[1] = ImageFlag
        /\ PngWithoutExif => InList(unit.out.value.red_flags, ScreenshotFlag)
        /\ unit.out.value.positive_signals = <<>>

C15_Witness ==
    /\ IsImageCall
    /\ PngWithoutExif
    /\ unit.filename = <<"x",".","J","P","G">>
    /\ unit.out.value.red_flags = <<ImageFlag, ScreenshotFlag>>

\* C16: in every bundle that analyze_document_authenticity_signals returns no
\* entry is in both red_flags and positive_signals, and when the extraction
\* has failed the bundle's metadata has the error entry and no other key.
C16_DisjointSignalsAndErrorOnly ==
    (IsSignalsCall /\ ~unit.out.raised) =>
        /\ \A i \in 1..Len(unit.out.value.red_flags) :
              ~InList(unit.out.value.positive_signals, unit.out.value.red_flags[i])
        /\ ExtractionFailed =>
              DOMAIN unit.out.value.metadata_analysis = {"error"}

\* a creator that is on the allowlist ("microsoft") and on the denylist
\* ("paint"): both findings are reported, with different texts
C16_Witness ==
    /\ IsPdfCall
    /\ CreatorIs(<<"M","i","c","r","o","s","o","f","t"," ","P","a","i","n","t">>)
    /\ ~unit.out.raised
    /\ InList(unit.out.value.positive_signals,
              LegitimateSignal(<<"m","i","c","r","o","s","o","f","t"," ","p","a","i","n","t">>))
    /\ InList(unit.out.value.red_flags,
              EditingFlag(<<"m","i","c","r","o","s","o","f","t"," ","p","a","i","n","t">>))

(***************************************************************************)
(* Audit log and retention                                                 *)
(***************************************************************************)
IsLogCall == unit.op = "log_event"

\* the entry the call has written
Logged == audit_log[Len(audit_log)]

\* name is stem "." ext, and ext has no dot
SplitsInto(name, stem, ext) ==
    /\ name = stem \o <<".">> \o ext
    /\ \A i \in 1..Len(ext) : ext[i] # "."

\* C17: the name logged for a filename is the first 8 hex characters of the
\* SHA-256 digest of its stem followed by "." and its extension, the text
\* after the last dot (of a filename without a dot: the 8 characters of the
\* digest of the whole name); nothing of the stem is logged in clear, and the
\* logged name is a function of stem and extension.
C17_StemHashedExtensionKept ==
    IsLogCall =>
        /\ Len(audit_log) = 1
        /\ \A i \in 0..Len(unit.filename), j \in 0..Len(unit.filename) :
              SplitsInto(unit.filename, SubSeq(unit.filename, 1, i),
                         SubSeq(unit.filename, Len(unit.filename) - j + 1,
                                Len(unit.filename)))
              => Logged.filename =
                    [name_hash |-> First8(sha256_hexdigest(SubSeq(unit.filename, 1, i))),
                     clear |-> <<".">> \o SubSeq(unit.filename,
                                                 Len(unit.filename) - j + 1,
                                                 Len(unit.filename))]
        /\ (\A i \in 1..Len(unit.filename) : unit.filename[i] # ".")
              => Logged.filename =
                    [name_hash |-> First8(sha256_hexdigest(unit.filename)),
                     clear |-> <<>>]

C17_Witness ==
    /\ IsLogCall
    /\ unit.filename = <<"a",".","p","d","f",".","e","x","e">>
    /\ Logged.filename =
          [name_hash |-> First8(sha256_hexdigest(<<"a",".","p","d","f">>)),
           clear |-> <<".","e","x","e">>]

IsRetentionCall == unit.op \in {"should_delete_file", "should_delete_analysis"}

\* the age of the timestamp of a retention call, in seconds
Elapsed == unit.now - unit.timestamp

\* C18: should_delete_file is true exactly for the upload timestamps more
\* than 24 hours old, and should_delete_analysis is true exactly for the
\* analysis timestamps more than 90 days old (90 days and 1 hour included).
C18_RetentionHorizons ==
    /\ unit.op = "should_delete_file" =>
          (unit.out <=> Elapsed > 24 * 3600)
    /\ unit.op = "should_delete_analysis" =>
          (unit.out <=> Elapsed > 90 * 24 * 3600)

\* the audit log holds the events of a finished request that passed
\* validation: the upload, then one terminal event that fits the result
RequestAudited ==
    /\ Len(audit_log) = 2
    /\ audit_log[1].event_type = "document_upload"
    /\ IF IsSuccess(result)
       THEN audit_log[2].event_type = "document_analysis"
       ELSE audit_log[2].event_type \notin {"document_upload", "document_analysis"}

\* C19: every request that passed validation has emitted its upload event
\* and then exactly one terminal event, analysis-completed with a verdict and
\* analysis-failed with a failure, by the time it has ended.
C19_AuditEventsEmitted ==
    (pc = "done" /\ Validated) => RequestAudited

IsFinancialCall == unit.op = "financial_analysis"

\* the input string is tool_input: a JSON object with all its keys, whose
\* file_data decodes
WellFormedPayload ==
    /\ unit.input_str.kind = "object"
    /\ unit.input_str.keys = {"file_data", "filename", "document_type"}
    /\ unit.input_str.b64ok

\* C20: every invocation of the financial-analysis tool with a well-formed
\* payload sends one text-completion request with the rubric to the model,
\* and returns the model's response, or an error text if the request fails.
C20_FinancialToolAsksModel ==
    (IsFinancialCall /\ WellFormedPayload) =>
        /\ ~unit.out.raised
        /\ unit.out.llm_requests = 1
        /\ unit.out.text.kind \in {"model", "error"}

(***************************************************************************)
(* Visual inspection of PDFs                                               *)
(***************************************************************************)
IsVisualCall == unit.op = "visual_inspection"

\* the input string is a JSON object with file_data, which decodes, and
\* filename (document_type is optional)
WellFormedVisualPayload ==
    /\ unit.input_str.kind = "object"
    /\ {"file_data", "filename"} \subseteq unit.input_str.keys
    /\ unit.input_str.b64ok

\* the filename has a dot, and ext is what follows its last dot, in lower
\* case
HasExtension(name, ext) ==
    \E i \in 1..Len(name) :
        /\ name[i] = "."
        /\ \A j \in (i + 1)..Len(name) : name[j] # "."
        /\ Lower(SubSeq(name, i + 1, Len(name))) = ext

HasOtherExtension(name, ext) ==
    /\ \E i \in 1..Len(name) : name[i] = "."
    /\ ~HasExtension(name, ext)

\* C21: for every well-formed payload whose filename extension is pdf in
\* any letter case the visual-inspection tool returns the fixed
\* 'unsupported' note as a normal result and sends no request to the vision
\* model; for every well-formed payload with another extension it sends
\* exactly one request.
C21_PdfShortCircuit ==
    (IsVisualCall /\ WellFormedVisualPayload) =>
        /\ HasExtension(unit.input_str.filename, <<"p","d","f">>) =>
              /\ ~unit.out.raised
              /\ unit.out.text = UnsupportedPdfNote
              /\ unit.out.vision_requests = 0
        /\ HasOtherExtension(unit.input_str.filename, <<"p","d","f">>) =>
              unit.out.vision_requests = 1

\* a.PDF, with a vision model that would have failed: the note is returned
\* and the model is not asked
C21_Witness ==
    /\ IsVisualCall
    /\ WellFormedVisualPayload
    /\ unit.input_str.filename = <<"a",".","P","D","F">>
    /\ unit.vision.raised
    /\ unit.out.text = UnsupportedPdfNote
    /\ unit.out.vision_requests = 0

(***************************************************************************)
(* The audit log under concurrent calls                                    *)
(***************************************************************************)
\* no call of log_event is under way
AllReturned == \A p \in Callers : log_calls[p].pc \in {"idle", "returned"}

ReturnedCalls == {p \in Callers : log_calls[p].pc = "returned"}

\* C22: once all concurrent calls of log_event have returned, the log holds
\* one entry for each of them: no entry has been lost to the
\* read-modify-write of the file.
C22_NoLostUpdate ==
    AllReturned => Len(audit_log) = Cardinality(ReturnedCalls)

=============================================================================
